---- MODULE Spec2Model ----
(***************************************************************************)
(* The order tracking store of the trading front end                       *)
(* (frontend/src/store/orderStore.js) together with its two callers: the   *)
(* order panel, which hands a created order to addOrder, and the orders    *)
(* table, which calls startPolling when it mounts.                         *)
(*                                                                         *)
(* The browser runs one callback at a time.  A step of the model is one    *)
(* such callback: a call of addOrder, the mounting of the orders table,    *)
(* one firing of a live interval timer (pollOrders up to its await), or    *)
(* the settlement of one status request.  The continuation of pollOrders   *)
(* after `await Promise.allSettled` runs as a microtask of the callback    *)
(* that settles the last request of the batch, so it is part of that step. *)
(***************************************************************************)
EXTENDS Integers, Sequences, FiniteSets, TLC

\* ---------------------------------------------------------------- bounds
\* Number of status requests that may be outstanding at once, over all the
\* pollOrders invocations awaiting their batch.
MaxRequests == 3
\* Number of distinct handles setInterval may return.
MaxTimerIds == 2

\* The ids of the orders the user submits.
OrderIds == {"A", "B"}
TimerIds == 1..MaxTimerIds

\* pollingInterval: null
None == 0

\* ------------------------------------------------------------ order data
\* The literal of pollOrders: the statuses after which an order is not polled.
TerminalStatuses == {"FILLED", "CANCELED", "REJECTED", "ERROR"}

\* Statuses the server reports in a status response: two of the non-terminal
\* ones the orders table draws, and every terminal one.
Statuses == {"SUBMITTED", "PARTIALLY_FILLED"} \cup TerminalStatuses

\* Statuses the server reports in the response to an order creation: an
\* order still working, or one filled at once.
CreatedStatuses == {"SUBMITTED", "FILLED"}

\* quantity_filled as the server reports it with each status.
QuantityFilled(s) ==
    CASE s = "PARTIALLY_FILLED" -> 5
      [] s = "FILLED"           -> 10
      [] OTHER                  -> 0

\* The order records the server can send for an id, as the body of the
\* creation response or of a status response.
Bodies(id) ==
    { [id |-> id, status |-> s, quantity_filled |-> QuantityFilled(s)] : s \in Statuses }

AllBodies == UNION { Bodies(id) : id \in OrderIds }

\* The bodies of creation responses: what the order panel passes to addOrder.
NewOrders == { o \in AllBodies : o.status \in CreatedStatuses }

\* ------------------------------------------------------------------ state
VARIABLES
    orders,           \* the cache: array of order records, in insertion order
    pollingInterval,  \* the stored timer handle, or None
    timers,           \* the browser's table of live interval timers
    polls,            \* pollOrders invocations suspended at their await
    last,             \* the callback that ran last, with what it did
    addedIds,         \* history: ids addOrder has been called with
    wasTerminal,      \* history: ids whose cached status has been terminal
    quiet,            \* history: the active set became empty and addOrder
                      \* has not been called since
    resolved,         \* history: per id, the status response that resolved last
    applied,          \* history: per id, the status response that was applied last
    creating,         \* createOrder requests of the order panel in flight
    outcome,          \* how the createOrder request that settled last ended
    currentInstrument, \* market data store: the selected instrument
    kline,            \* market data store: candles of the chart and their loading flag
    klineFetches,     \* fetchKlineToRender invocations suspended at their 800 ms timeout,
                      \* oldest first, each with the instrument it read
    renderedInstrument, \* the instrument the trading page's effect last ran for
    patterns,         \* AI store: the detected chart patterns
    isLoadingPatterns, \* AI store: the loading flag of fetchPatterns
    detections,       \* detectChartPatterns requests in flight, each with its symbol
    lastAi,           \* what the last callback of the two stores did
    eventSource,      \* sentiment store: the stored EventSource, or None
    streams,          \* the EventSource objects that are open, each with its symbol
    liveFeed,         \* sentiment store: the live feed, newest item first
    received,         \* the number of sentiment messages received so far
    lastFeed,         \* what the last callback of the sentiment store did
    isAuthenticated,  \* useAuth().isAuthenticated
    accessToken,      \* localStorage holds an accessToken
    providerMounted,  \* WebSocketProvider is mounted
    webSocketRef,     \* webSocketRef.current: a socket, or None
    sockets,          \* the WebSocket objects that are open
    cleanup,          \* the effect's last run returned its cleanup function
    lastMessage,      \* WebSocketProvider state: the last message parsed
    accountData,      \* WebSocketProvider state: the last account update
    reloading,        \* a timeout that reloads the page is pending
    lastWs            \* what the last step of WebSocketProvider did

\* The store, its timer and its suspended polls, with the observers of Spec.
storeVars == <<orders, pollingInterval, timers, polls, last, addedIds, wasTerminal, quiet>>

\* The observers of overlapping polls.
overlapVars == <<resolved, applied>>

\* The order panel's submission flow.
submitVars == <<creating, outcome>>

\* The market data store, the AI store and the trading page's effect.
aiVars == <<currentInstrument, kline, klineFetches, renderedInstrument,
            patterns, isLoadingPatterns, detections, lastAi>>

\* The sentiment store and its event streams.
sentimentVars == <<eventSource, streams, liveFeed, received, lastFeed>>

\* WebSocketProvider, the authentication state it follows and its sockets.
socketVars == <<isAuthenticated, accessToken, providerMounted, webSocketRef, sockets,
                cleanup, lastMessage, accountData, reloading, lastWs>>

\* The application outside the order store.
pageVars == <<aiVars, sentimentVars, socketVars>>

\* The order store with its observers and the order panel.
orderVars == <<storeVars, overlapVars, submitVars>>

vars == <<orders, pollingInterval, timers, polls, last, addedIds, wasTerminal, quiet,
          resolved, applied, creating, outcome,
          currentInstrument, kline, klineFetches, renderedInstrument,
          patterns, isLoadingPatterns, detections, lastAi,
          eventSource, streams, liveFeed, received, lastFeed,
          isAuthenticated, accessToken, providerMounted, webSocketRef, sockets,
          cleanup, lastMessage, accountData, reloading, lastWs>>

\* createOrder requests the order panel may have in flight at once.
MaxCreating == 2

\* fetchKlineToRender invocations that may wait for their timeout at once.
MaxKlineFetches == 2

\* The instruments of the selector (two of mockInstruments).
Instruments == {"BTC/USD", "ETH/USD"}

\* A missing instrument argument (null or undefined).
NoInstrument == "null"

\* The trading page has not been rendered yet.
NotRendered == "unmounted"

\* Sentiment messages that may be received.
MaxMessages == 22

\* EventSource objects that may exist at once.
MaxStreams == 2

\* WebSocket objects that may exist at once.
MaxSockets == 2

\* if (draft.liveFeed.length > 20): the size the live feed is kept to.
FeedCap == 20

StreamIds == 1..MaxStreams

SocketIds == 1..MaxSockets

\* ---------------------------------------------------------------- helpers
\* Mutant of IsActive: the literal lacks 'ERROR'.
IsActiveWithoutError(o) == o.status \notin {"FILLED", "CANCELED", "REJECTED"}

\* o => !['FILLED', 'CANCELED', 'REJECTED', 'ERROR'].includes(o.status)
IsActive(o) == o.status \notin TerminalStatuses

\* orders.filter(IsActive), by index
RECURSIVE Filter(_, _)
Filter(s, k) ==
    IF k > Len(s) THEN <<>>
    ELSE IF IsActive(s[k]) THEN <<s[k]>> \o Filter(s, k + 1)
    ELSE Filter(s, k + 1)

ActiveOrders(ords) == Filter(ords, 1)

\* draft.orders.findIndex(o => o.id === id): 0 stands for -1
RECURSIVE FindFrom(_, _, _)
FindFrom(ords, id, k) ==
    IF k > Len(ords) THEN 0
    ELSE IF ords[k].id = id THEN k
    ELSE FindFrom(ords, id, k + 1)

FindIndex(ords, id) == FindFrom(ords, id, 1)

Pending  == [status |-> "pending",   value |-> <<>>]
Rejected == [status |-> "rejected",  value |-> <<>>]
Fulfilled(body) == [status |-> "fulfilled", value |-> <<body>>]

\* Mutant of ApplyResult: the response is merged into the cached record
\* (status only) instead of replacing it.
ApplyResultMerged(ords, result) ==
    IF result.status = "fulfilled"
    THEN LET updatedOrder == result.value[1]
             orderIndex   == FindIndex(ords, updatedOrder.id)
         IN  IF orderIndex # 0
             THEN [ords EXCEPT ![orderIndex].status = updatedOrder.status]
             ELSE ords
    ELSE ords

\* Mutant of ApplyResult: a response whose id matches no cached record is
\* pushed onto the cache (an upsert).
ApplyResultUpsert(ords, result) ==
    IF result.status = "fulfilled"
    THEN LET updatedOrder == result.value[1]
             orderIndex   == FindIndex(ords, updatedOrder.id)
         IN  IF orderIndex # 0
             THEN [ords EXCEPT ![orderIndex] = updatedOrder]
             ELSE Append(ords, updatedOrder)
    ELSE ords

\* Mutant of ApplyResult: a response is dropped when the cached record is
\* already terminal (a staleness guard the store does not have).
ApplyResultUnlessTerminal(ords, result) ==
    IF result.status = "fulfilled"
    THEN LET updatedOrder == result.value[1]
             orderIndex   == FindIndex(ords, updatedOrder.id)
         IN  IF orderIndex # 0 /\ ords[orderIndex].status \notin TerminalStatuses
             THEN [ords EXCEPT ![orderIndex] = updatedOrder]
             ELSE ords
    ELSE ords

\* One iteration of results.forEach inside set(produce(...)).
ApplyResult(ords, result) ==
    IF result.status = "fulfilled"
    THEN LET updatedOrder == result.value[1]
             orderIndex   == FindIndex(ords, updatedOrder.id)
         IN  IF orderIndex # 0
             THEN [ords EXCEPT ![orderIndex] = updatedOrder]
             ELSE ords
    ELSE ords

\* results.forEach(...), in index order, from index k.
RECURSIVE ApplyFrom(_, _, _)
ApplyFrom(ords, results, k) ==
    IF k > Len(results) THEN ords
    ELSE ApplyFrom(ApplyResult(ords, results[k]), results, k + 1)

\* Mutant of ApplyResults: Promise.all in place of Promise.allSettled, so one
\* rejection throws into the catch block and nothing is applied.
ApplyResultsAllOrNothing(ords, results) ==
    IF \E k \in 1..Len(results) : results[k].status = "rejected"
    THEN ords
    ELSE ApplyFrom(ords, results, 1)

\* The continuation after `await Promise.allSettled(updatePromises)`.
ApplyResults(ords, results) == ApplyFrom(ords, results, 1)

Ids(ords) == { ords[k].id : k \in 1..Len(ords) }

TerminalIds(ords) == { ords[k].id : k \in { j \in 1..Len(ords) : ~IsActive(ords[j]) } }

\* Requests issued by the suspended invocations.
RECURSIVE Outstanding(_)
Outstanding(ps) ==
    IF ps = <<>> THEN 0 ELSE Len(Head(ps).results) + Outstanding(Tail(ps))

\* What the last callback did: its name, the stored handle it found, the
\* argument of addOrder, the ids a poll requested (for "apply": the ids the
\* applied batch had requested) and the settled results of an applied batch.
Event(op, arg, ids, batch) ==
    [op |-> op, was |-> pollingInterval, arg |-> arg, ids |-> ids, batch |-> batch]

\* ------------------------------------------------------------- operations
\* setInterval returns a handle that is not in the table of live timers.
\* Handles are opaque to the store (it only stores one and hands it back to
\* clearInterval), so the least free one stands for any of them.
SetInterval(live) == CHOOSE h \in TimerIds \ live : \A g \in TimerIds \ live : h <= g

\* Mutant of StartPolling: no `if (pollingInterval) return`.
StartPollingUnguarded ==
    /\ TimerIds \ timers # {}
    /\ timers' = timers \cup {SetInterval(timers)}
    /\ pollingInterval' = SetInterval(timers)

\* startPolling: no-op while a handle is stored, otherwise setInterval and
\* store the handle it returns.
StartPolling ==
    IF pollingInterval # None
    THEN UNCHANGED <<pollingInterval, timers>>
    ELSE /\ TimerIds \ timers # {}
         /\ timers' = timers \cup {SetInterval(timers)}
         /\ pollingInterval' = SetInterval(timers)

\* Mutant of StopPolling: clearInterval without set({ pollingInterval: null }).
StopPollingKeepsHandle ==
    IF pollingInterval # None
    THEN /\ timers' = timers \ {pollingInterval}
         /\ pollingInterval' = pollingInterval
    ELSE UNCHANGED <<pollingInterval, timers>>

\* stopPolling: clearInterval of the stored handle, and forget it.
StopPolling ==
    IF pollingInterval # None
    THEN /\ timers' = timers \ {pollingInterval}
         /\ pollingInterval' = None
    ELSE UNCHANGED <<pollingInterval, timers>>

\* Mutant of Pushed: no duplicate check.
PushedAlways(ords, newOrder) == Append(ords, newOrder)

\* Mutant of Pushed: a duplicate id replaces the cached record.
PushedOrReplaced(ords, newOrder) ==
    IF \E k \in 1..Len(ords) : ords[k].id = newOrder.id
    THEN [k \in 1..Len(ords) |-> IF ords[k].id = newOrder.id THEN newOrder ELSE ords[k]]
    ELSE Append(ords, newOrder)

\* The array addOrder leaves behind.
Pushed(ords, newOrder) ==
    IF \E k \in 1..Len(ords) : ords[k].id = newOrder.id
    THEN ords
    ELSE Append(ords, newOrder)

\* Mutant of AddOrder: startPolling is called only when the order was pushed.
AddOrderStartsWhenPushed(newOrder) ==
    /\ orders' = Pushed(orders, newOrder)
    /\ IF orders' # orders THEN StartPolling ELSE UNCHANGED <<pollingInterval, timers>>
    /\ last' = Event("addOrder", <<newOrder>>, <<>>, <<>>)
    /\ addedIds' = addedIds \cup {newOrder.id}
    /\ wasTerminal' = wasTerminal \cup TerminalIds(orders')
    /\ quiet' = FALSE
    /\ UNCHANGED polls

\* addOrder(newOrder), called by the order panel with the creation response.
AddOrder(newOrder) ==
    /\ orders' = Pushed(orders, newOrder)
    /\ StartPolling
    /\ last' = Event("addOrder", <<newOrder>>, <<>>, <<>>)
    /\ addedIds' = addedIds \cup {newOrder.id}
    /\ wasTerminal' = wasTerminal \cup TerminalIds(orders')
    /\ quiet' = FALSE
    /\ UNCHANGED polls

\* The orders table mounts: useEffect(() => { startPolling(); }).
MountOrdersTable ==
    /\ StartPolling
    /\ last' = Event("startPolling", <<>>, <<>>, <<>>)
    /\ UNCHANGED <<orders, polls, addedIds, wasTerminal, quiet>>

\* Mutant of PollIdle: the idle tick returns without stopping the timer.
PollIdleKeepsTimer ==
    /\ ActiveOrders(orders) = <<>>
    /\ last' = Event("pollIdle", <<>>, <<>>, <<>>)
    /\ UNCHANGED <<orders, pollingInterval, timers, polls, addedIds, wasTerminal, quiet>>

\* pollOrders up to its await, when no cached order is active.
PollIdle ==
    /\ ActiveOrders(orders) = <<>>
    /\ StopPolling
    /\ last' = Event("pollIdle", <<>>, <<>>, <<>>)
    /\ UNCHANGED <<orders, polls, addedIds, wasTerminal, quiet>>

\* Mutant of PollRequest: a one-shot poller, which stops the timer once it
\* has issued its requests.
PollRequestOnce ==
    LET activeOrders == ActiveOrders(orders)
        requested    == [k \in 1..Len(activeOrders) |-> activeOrders[k].id]
    IN  /\ activeOrders # <<>>
        /\ Outstanding(polls) + Len(activeOrders) <= MaxRequests
        /\ polls' = Append(polls, [activeOrders |-> requested,
                                   results |-> [k \in 1..Len(requested) |-> Pending]])
        /\ last' = Event("poll", <<>>, requested, <<>>)
        /\ StopPolling
        /\ UNCHANGED <<orders, addedIds, wasTerminal, quiet>>

\* Mutant of PollRequest: the parent of an active child order is requested
\* along with the active orders.
PollRequestWithParents ==
    LET activeOrders == ActiveOrders(orders)
        children     == [k \in 1..Len(activeOrders) |-> activeOrders[k].id]
        parents      == { activeOrders[k].parent_order_id : k \in 1..Len(activeOrders) }
                            \cap OrderIds
        requested    == IF parents = {} THEN children
                        ELSE Append(children, CHOOSE id \in parents : TRUE)
    IN  /\ activeOrders # <<>>
        /\ Outstanding(polls) + Len(requested) <= MaxRequests
        /\ polls' = Append(polls, [activeOrders |-> requested,
                                   results |-> [k \in 1..Len(requested) |-> Pending]])
        /\ last' = Event("poll", <<>>, requested, <<>>)
        /\ UNCHANGED <<orders, pollingInterval, timers, addedIds, wasTerminal, quiet>>

\* pollOrders up to its await, with active orders: one getOrderStatus per
\* active order, and the invocation suspends until all of them settle.
PollRequest ==
    LET activeOrders == ActiveOrders(orders)
        requested    == [k \in 1..Len(activeOrders) |-> activeOrders[k].id]
    IN  /\ activeOrders # <<>>
        /\ Outstanding(polls) + Len(activeOrders) <= MaxRequests
        /\ polls' = Append(polls, [activeOrders |-> requested,
                                   results |-> [k \in 1..Len(requested) |-> Pending]])
        /\ last' = Event("poll", <<>>, requested, <<>>)
        /\ UNCHANGED <<orders, pollingInterval, timers, addedIds, wasTerminal, quiet>>

\* A live interval timer fires and runs pollOrders.
Tick(interval) ==
    /\ interval \in timers
    /\ \/ PollIdle
       \/ PollRequest

RemoveAt(s, p) == [k \in 1..(Len(s) - 1) |-> IF k < p THEN s[k] ELSE s[k + 1]]

\* Mutant of Settle: a batch in which every request rejected is treated as a
\* failed poll and stops the timer.
SettleStoppingOnFailure(p, i, result) ==
    LET results == [polls[p].results EXCEPT ![i] = result]
        settled == \A k \in 1..Len(results) : results[k].status # "pending"
        failed  == \A k \in 1..Len(results) : results[k].status = "rejected"
    IN  /\ polls[p].results[i].status = "pending"
        /\ IF settled
           THEN /\ orders' = ApplyResults(orders, results)
                /\ polls' = RemoveAt(polls, p)
                /\ last' = Event("apply", <<>>, polls[p].activeOrders, results)
           ELSE /\ orders' = orders
                /\ polls' = [polls EXCEPT ![p].results = results]
                /\ last' = Event("settle", <<>>, <<>>, <<>>)
        /\ IF settled /\ failed
           THEN StopPolling
           ELSE UNCHANGED <<pollingInterval, timers>>
        /\ wasTerminal' = wasTerminal \cup TerminalIds(orders')
        /\ quiet' = IF ActiveOrders(orders) # <<>> /\ ActiveOrders(orders') = <<>>
                    THEN TRUE ELSE quiet
        /\ UNCHANGED addedIds

\* Mutant of Settle: a batch that settles while no timer is running is
\* dropped (stopPolling cancels the requests in flight as well).
SettleUnlessStopped(p, i, result) ==
    LET results == [polls[p].results EXCEPT ![i] = result]
        settled == \A k \in 1..Len(results) : results[k].status # "pending"
    IN  /\ polls[p].results[i].status = "pending"
        /\ IF settled
           THEN /\ orders' = IF pollingInterval = None THEN orders
                             ELSE ApplyResults(orders, results)
                /\ polls' = RemoveAt(polls, p)
                /\ last' = Event("apply", <<>>, polls[p].activeOrders, results)
           ELSE /\ orders' = orders
                /\ polls' = [polls EXCEPT ![p].results = results]
                /\ last' = Event("settle", <<>>, <<>>, <<>>)
        /\ wasTerminal' = wasTerminal \cup TerminalIds(orders')
        /\ quiet' = IF ActiveOrders(orders) # <<>> /\ ActiveOrders(orders') = <<>>
                    THEN TRUE ELSE quiet
        /\ UNCHANGED <<pollingInterval, timers, addedIds>>

\* Mutant of Settle: each fulfilled response is written into the cache as it
\* arrives, without waiting for the rest of its batch.
SettleEagerly(p, i, result) ==
    LET results == [polls[p].results EXCEPT ![i] = result]
        settled == \A k \in 1..Len(results) : results[k].status # "pending"
    IN  /\ polls[p].results[i].status = "pending"
        /\ orders' = ApplyResult(orders, result)
        /\ IF settled
           THEN /\ polls' = RemoveAt(polls, p)
                /\ last' = Event("apply", <<>>, polls[p].activeOrders, results)
           ELSE /\ polls' = [polls EXCEPT ![p].results = results]
                /\ last' = Event("settle", <<>>, <<>>, <<>>)
        /\ wasTerminal' = wasTerminal \cup TerminalIds(orders')
        /\ quiet' = IF ActiveOrders(orders) # <<>> /\ ActiveOrders(orders') = <<>>
                    THEN TRUE ELSE quiet
        /\ UNCHANGED <<pollingInterval, timers, addedIds>>

\* Request i of suspended invocation p settles with the given result.  When
\* it was the last pending request of the batch, allSettled resolves and
\* the invocation resumes and applies the results.
Settle(p, i, result) ==
    LET results == [polls[p].results EXCEPT ![i] = result]
        settled == \A k \in 1..Len(results) : results[k].status # "pending"
    IN  /\ polls[p].results[i].status = "pending"
        /\ IF settled
           THEN /\ orders' = ApplyResults(orders, results)
                /\ polls' = RemoveAt(polls, p)
                /\ last' = Event("apply", <<>>, polls[p].activeOrders, results)
           ELSE /\ orders' = orders
                /\ polls' = [polls EXCEPT ![p].results = results]
                /\ last' = Event("settle", <<>>, <<>>, <<>>)
        /\ wasTerminal' = wasTerminal \cup TerminalIds(orders')
        /\ quiet' = IF ActiveOrders(orders) # <<>> /\ ActiveOrders(orders') = <<>>
                    THEN TRUE ELSE quiet
        /\ UNCHANGED <<pollingInterval, timers, addedIds>>

\* The status request for polls[p].activeOrders[i] rejects.
Reject(p, i) == Settle(p, i, Rejected)

\* The status request for polls[p].activeOrders[i] fulfils with the server's
\* current record of that order.
Fulfil(p, i, body) ==
    /\ body.id = polls[p].activeOrders[i]
    /\ Settle(p, i, Fulfilled(body))

\* ---------------------------------------------------------- specification
Init ==
    /\ orders = <<>>
    /\ pollingInterval = None
    /\ timers = {}
    /\ polls = <<>>
    /\ last = [op |-> "init", was |-> None, arg |-> <<>>, ids |-> <<>>, batch |-> <<>>]
    /\ addedIds = {}
    /\ wasTerminal = {}
    /\ quiet = FALSE
    /\ resolved = [id \in OrderIds |-> <<>>]
    /\ applied = [id \in OrderIds |-> <<>>]
    /\ creating = 0
    /\ outcome = Pending
    /\ currentInstrument = "BTC/USD"
    /\ kline = [data |-> "none", loading |-> TRUE]
    /\ klineFetches = <<>>
    /\ renderedInstrument = NotRendered
    /\ patterns = <<>>
    /\ isLoadingPatterns = FALSE
    /\ detections = <<>>
    /\ lastAi = [op |-> "init", arg |-> NoInstrument, loading |-> FALSE]
    /\ eventSource = None
    /\ streams = {}
    /\ liveFeed = <<>>
    /\ received = 0
    /\ lastFeed = [op |-> "init", was |-> None]
    /\ isAuthenticated = FALSE
    /\ accessToken = FALSE
    /\ providerMounted = FALSE
    /\ webSocketRef = None
    /\ sockets = {}
    /\ cleanup = FALSE
    /\ lastMessage = "null"
    /\ accountData = "null"
    /\ reloading = FALSE
    /\ lastWs = [op |-> "init", was |-> None, open |-> {}]

\* The store driven by its callers and by the server's answers.
Next ==
    \/ \E newOrder \in NewOrders :
          AddOrder(newOrder) /\ UNCHANGED <<overlapVars, submitVars, pageVars>>
    \/ MountOrdersTable /\ UNCHANGED <<overlapVars, submitVars, pageVars>>
    \/ \E interval \in TimerIds :
          Tick(interval) /\ UNCHANGED <<overlapVars, submitVars, pageVars>>
    \/ \E p \in 1..Len(polls) : \E i \in 1..Len(polls[p].results) :
          Reject(p, i) /\ UNCHANGED <<overlapVars, submitVars, pageVars>>
    \/ \E p \in 1..Len(polls) : \E i \in 1..Len(polls[p].results) :
          \E body \in Bodies(polls[p].activeOrders[i]) :
              Fulfil(p, i, body) /\ UNCHANGED <<overlapVars, submitVars, pageVars>>

Spec == Init /\ [][Next]_vars

\* ------------------------------------------- a server answering with any id
\* The status request for polls[p].activeOrders[i] fulfils with a record
\* whose id the client does not control: result.value.data is looked up in
\* the cache by its own id, which may be the id of no cached record.
FulfilAny(p, i, body) == Settle(p, i, Fulfilled(body))

NextAnyId ==
    \/ \E newOrder \in NewOrders :
          AddOrder(newOrder) /\ UNCHANGED <<overlapVars, submitVars, pageVars>>
    \/ MountOrdersTable /\ UNCHANGED <<overlapVars, submitVars, pageVars>>
    \/ \E interval \in TimerIds :
          Tick(interval) /\ UNCHANGED <<overlapVars, submitVars, pageVars>>
    \/ \E p \in 1..Len(polls) : \E i \in 1..Len(polls[p].results) :
          Reject(p, i) /\ UNCHANGED <<overlapVars, submitVars, pageVars>>
    \/ \E p \in 1..Len(polls) : \E i \in 1..Len(polls[p].results) :
          \E body \in AllBodies :
              FulfilAny(p, i, body) /\ UNCHANGED <<overlapVars, submitVars, pageVars>>

SpecAnyId == Init /\ [][NextAnyId]_vars

\* --------------------------------------------- overlapping polls, observed
\* The response the batch just applied carried for id, else what was there.
AppliedNow(id) ==
    IF last'.op = "apply"
    THEN LET ks == { k \in 1..Len(last'.batch) :
                        /\ last'.batch[k].status = "fulfilled"
                        /\ last'.batch[k].value[1].id = id }
         IN  IF ks = {} THEN applied[id]
             ELSE <<last'.batch[CHOOSE k \in ks : TRUE].value[1]>>
    ELSE applied[id]

\* A status request rejects; its batch may resume and be applied.
RejectObserved(p, i) ==
    /\ Reject(p, i)
    /\ resolved' = resolved
    /\ applied' = [id \in OrderIds |-> AppliedNow(id)]

\* The answers the observed server gives about an order: open, partly
\* filled or filled.
ObservedBodies(id) ==
    { body \in Bodies(id) : body.status \in {"SUBMITTED", "PARTIALLY_FILLED", "FILLED"} }

\* A status request resolves with body; its batch may resume and be applied.
FulfilObserved(p, i, body) ==
    /\ Fulfil(p, i, body)
    /\ resolved' = [resolved EXCEPT ![body.id] = <<body>>]
    /\ applied' = [id \in OrderIds |-> AppliedNow(id)]

NextOverlap ==
    \/ \E newOrder \in NewOrders :
          AddOrder(newOrder) /\ UNCHANGED <<overlapVars, submitVars, pageVars>>
    \/ MountOrdersTable /\ UNCHANGED <<overlapVars, submitVars, pageVars>>
    \/ \E interval \in TimerIds :
          Tick(interval) /\ UNCHANGED <<overlapVars, submitVars, pageVars>>
    \/ \E p \in 1..Len(polls) : \E i \in 1..Len(polls[p].results) :
          RejectObserved(p, i) /\ UNCHANGED <<submitVars, pageVars>>
    \/ \E p \in 1..Len(polls) : \E i \in 1..Len(polls[p].results) :
          \E body \in ObservedBodies(polls[p].activeOrders[i]) :
              FulfilObserved(p, i, body) /\ UNCHANGED <<submitVars, pageVars>>

SpecOverlap == Init /\ [][NextOverlap]_vars

\* ------------------------------------------------ the order panel's submit
\* submitOrder up to its await: tradeService.createOrder posts the order and
\* the handler suspends; the store is not touched.
SubmitOrder ==
    /\ creating < MaxCreating
    /\ creating' = creating + 1
    /\ outcome' = Pending
    /\ UNCHANGED <<storeVars, overlapVars, pageVars>>

\* Mutant of SubmitOrderRejected: the handler hands a placeholder record
\* of the failed order to addOrder.
SubmitOrderRejectedAddsOrder ==
    /\ creating > 0
    /\ creating' = creating - 1
    /\ outcome' = Rejected
    /\ AddOrder([id |-> "A", status |-> "ERROR", quantity_filled |-> 0])
    /\ UNCHANGED <<overlapVars, pageVars>>

\* createOrder rejects: the catch branch shows a toast and returns.
SubmitOrderRejected ==
    /\ creating > 0
    /\ creating' = creating - 1
    /\ outcome' = Rejected
    /\ UNCHANGED <<storeVars, overlapVars, pageVars>>

\* createOrder resolves: the handler resumes and calls addOrder(response.data).
SubmitOrderFulfilled(body) ==
    /\ creating > 0
    /\ creating' = creating - 1
    /\ outcome' = Fulfilled(body)
    /\ AddOrder(body)
    /\ UNCHANGED <<overlapVars, pageVars>>

\* A step of the store that settles no createOrder request.
NoSubmit ==
    /\ outcome' = Pending
    /\ UNCHANGED <<creating, overlapVars, pageVars>>

NextSubmit ==
    \/ SubmitOrder
    \/ SubmitOrderRejected
    \/ \E body \in NewOrders : SubmitOrderFulfilled(body)
    \/ MountOrdersTable /\ NoSubmit
    \/ \E interval \in TimerIds : Tick(interval) /\ NoSubmit
    \/ \E p \in 1..Len(polls) : \E i \in 1..Len(polls[p].results) :
          Reject(p, i) /\ NoSubmit
    \/ \E p \in 1..Len(polls) : \E i \in 1..Len(polls[p].results) :
          \E body \in ObservedBodies(polls[p].activeOrders[i]) :
              Fulfil(p, i, body) /\ NoSubmit

SpecSubmit == Init /\ [][NextSubmit]_vars

\* ------------------------------------------- the store's actions as an API
\* stopPolling() called by a component (the store exports it; pollOrders is
\* its only caller in the repository).
CallStopPolling ==
    /\ StopPolling
    /\ last' = Event("stopPolling", <<>>, <<>>, <<>>)
    /\ UNCHANGED <<orders, polls, addedIds, wasTerminal, quiet>>

NextApi ==
    \/ \E newOrder \in NewOrders :
          AddOrder(newOrder) /\ UNCHANGED <<overlapVars, submitVars, pageVars>>
    \/ MountOrdersTable /\ UNCHANGED <<overlapVars, submitVars, pageVars>>
    \/ CallStopPolling /\ UNCHANGED <<overlapVars, submitVars, pageVars>>
    \/ \E interval \in TimerIds :
          Tick(interval) /\ UNCHANGED <<overlapVars, submitVars, pageVars>>
    \/ \E p \in 1..Len(polls) : \E i \in 1..Len(polls[p].results) :
          Reject(p, i) /\ UNCHANGED <<overlapVars, submitVars, pageVars>>
    \/ \E p \in 1..Len(polls) : \E i \in 1..Len(polls[p].results) :
          \E body \in ObservedBodies(polls[p].activeOrders[i]) :
              Fulfil(p, i, body) /\ UNCHANGED <<overlapVars, submitVars, pageVars>>

SpecApi == Init /\ [][NextApi]_vars

\* ------------------------------------------- algorithmic orders and children
\* parent_order_id of an order that has no parent (null).
NoParent == "null"

\* The orders of the family: A is an algorithmic parent order, B is a child
\* order of A.  These attributes are the server's and never change.
WithFamily(o) ==
    [id |-> o.id, status |-> o.status, quantity_filled |-> o.quantity_filled,
     is_algorithmic |-> (o.id = "A"),
     parent_order_id |-> IF o.id = "B" THEN "A" ELSE NoParent]

NextFamily ==
    \/ \E newOrder \in NewOrders :
          AddOrder(WithFamily(newOrder)) /\ UNCHANGED <<overlapVars, submitVars, pageVars>>
    \/ MountOrdersTable /\ UNCHANGED <<overlapVars, submitVars, pageVars>>
    \/ \E interval \in TimerIds :
          Tick(interval) /\ UNCHANGED <<overlapVars, submitVars, pageVars>>
    \/ \E p \in 1..Len(polls) : \E i \in 1..Len(polls[p].results) :
          Reject(p, i) /\ UNCHANGED <<overlapVars, submitVars, pageVars>>
    \/ \E p \in 1..Len(polls) : \E i \in 1..Len(polls[p].results) :
          \E body \in Bodies(polls[p].activeOrders[i]) :
              Fulfil(p, i, WithFamily(body)) /\ UNCHANGED <<overlapVars, submitVars, pageVars>>

SpecFamily == Init /\ [][NextFamily]_vars

\* ------------------------------------------------------- the orders table
\* The orders the panel may create: algorithmic or not, with no parent or
\* with the other order as parent.
TableOrders ==
    { t \in { [id |-> o.id, status |-> o.status, quantity_filled |-> o.quantity_filled,
               is_algorithmic |-> alg, parent_order_id |-> par] :
                  o \in NewOrders, alg \in BOOLEAN, par \in {NoParent} \cup OrderIds } :
        t.parent_order_id # t.id }

\* The server's record of a cached order: its attributes, with a new status.
Answer(cached, status) ==
    [cached EXCEPT !.status = status, !.quantity_filled = QuantityFilled(status)]

\* The answers of the server to the status request for polls[p].activeOrders[i].
TableAnswers(id) ==
    { Answer(orders[k], s) : k \in { j \in 1..Len(orders) : orders[j].id = id },
                             s \in {"PARTIALLY_FILLED", "FILLED"} }

\* orders.filter(o => o.is_algorithmic)
ParentOrders(ords) == SelectSeq(ords, LAMBDA o : o.is_algorithmic)

\* orders.filter(o => !o.is_algorithmic && !o.parent_order_id)
RegularOrders(ords) ==
    SelectSeq(ords, LAMBDA o : ~o.is_algorithmic /\ o.parent_order_id = NoParent)

\* childOrdersByParent[id] || []
ChildOrdersByParent(ords, id) ==
    SelectSeq(ords, LAMBDA o : o.parent_order_id # NoParent /\ o.parent_order_id = id)

\* parentOrders.map(order => <ParentOrderDisclosure order={order} />): the
\* row of each parent followed by an OrderRow for each of its children.
RECURSIVE ParentRows(_, _, _)
ParentRows(parents, ords, k) ==
    IF k > Len(parents) THEN <<>>
    ELSE <<parents[k]>> \o ChildOrdersByParent(ords, parents[k].id)
             \o ParentRows(parents, ords, k + 1)

\* The rows of the table, top to bottom.
Rows(ords) ==
    ParentRows(ParentOrders(ords), ords, 1) \o RegularOrders(ords)

NextTable ==
    \/ \E newOrder \in TableOrders :
          AddOrder(newOrder) /\ UNCHANGED <<overlapVars, submitVars, pageVars>>
    \/ MountOrdersTable /\ UNCHANGED <<overlapVars, submitVars, pageVars>>
    \/ \E interval \in TimerIds :
          Tick(interval) /\ UNCHANGED <<overlapVars, submitVars, pageVars>>
    \/ \E p \in 1..Len(polls) : \E i \in 1..Len(polls[p].results) :
          Reject(p, i) /\ UNCHANGED <<overlapVars, submitVars, pageVars>>
    \/ \E p \in 1..Len(polls) : \E i \in 1..Len(polls[p].results) :
          \E body \in TableAnswers(polls[p].activeOrders[i]) :
              Fulfil(p, i, body) /\ UNCHANGED <<overlapVars, submitVars, pageVars>>

SpecTable == Init /\ [][NextTable]_vars

\* --------------------------------------------- chart data and AI patterns
\* instrument.symbol.replace('/', ''): the symbol the backend expects.
WithoutSlash(symbol) ==
    CASE symbol = "BTC/USD" -> "BTCUSD"
      [] symbol = "ETH/USD" -> "ETHUSD"

\* response.data of detectChartPatterns for a symbol: the patterns found in
\* that symbol's candles.
PatternsOf(symbol) == <<[symbol |-> symbol, pattern |-> "double_top"]>>

\* What the last callback did: its name, its instrument or symbol, and the
\* loading flag it found.
AiEvent(op, arg) == [op |-> op, arg |-> arg, loading |-> isLoadingPatterns]

\* Mutant of FetchPatterns: no `get().isLoadingPatterns` in the guard.
FetchPatternsUnguarded(instrument) ==
    IF instrument = NoInstrument
    THEN UNCHANGED <<isLoadingPatterns, detections>>
    ELSE /\ isLoadingPatterns' = TRUE
         /\ detections' = Append(detections, WithoutSlash(instrument))

\* fetchPatterns(instrument) up to its await: returns at once without an
\* instrument or while loading, else sets the flag and issues the request.
FetchPatterns(instrument) ==
    IF instrument = NoInstrument \/ isLoadingPatterns
    THEN UNCHANGED <<isLoadingPatterns, detections>>
    ELSE /\ isLoadingPatterns' = TRUE
         /\ detections' = Append(detections, WithoutSlash(instrument))

\* fetchKlineToRender up to its await, reading instrument as currentInstrument.
FetchKlineToRender(instrument) ==
    /\ Len(klineFetches) < MaxKlineFetches
    /\ klineFetches' = Append(klineFetches, instrument)

\* setCurrentInstrument(instrument): select it, clear the chart, clearPatterns,
\* fetchKlineToRender.
SetCurrentInstrument(instrument) ==
    /\ currentInstrument' = instrument
    /\ kline' = [data |-> "none", loading |-> TRUE]
    /\ patterns' = <<>>
    /\ FetchKlineToRender(instrument)
    /\ lastAi' = AiEvent("setCurrentInstrument", instrument)
    /\ UNCHANGED <<renderedInstrument, isLoadingPatterns, detections>>

\* The trading page's effect, which runs on mount and whenever
\* currentInstrument has changed: fetchKlineToRender.
TradingPageEffect ==
    /\ renderedInstrument # currentInstrument
    /\ renderedInstrument' = currentInstrument
    /\ FetchKlineToRender(currentInstrument)
    /\ lastAi' = AiEvent("fetchKlineToRender", currentInstrument)
    /\ UNCHANGED <<currentInstrument, kline, patterns, isLoadingPatterns, detections>>

\* The 800 ms timeout of the oldest suspended fetchKlineToRender fires: the
\* candles are stored and fetchPatterns is called with the instrument the
\* invocation had read.
KlineTimeout ==
    /\ klineFetches # <<>>
    /\ kline' = [data |-> "candles", loading |-> FALSE]
    /\ klineFetches' = Tail(klineFetches)
    /\ FetchPatterns(Head(klineFetches))
    /\ lastAi' = AiEvent("fetchPatterns", Head(klineFetches))
    /\ UNCHANGED <<currentInstrument, renderedInstrument, patterns>>

\* The detectChartPatterns request r resolves: patterns = response.data,
\* then the finally block clears the flag.
DetectFulfilled(r) ==
    /\ patterns' = PatternsOf(detections[r])
    /\ isLoadingPatterns' = FALSE
    /\ detections' = RemoveAt(detections, r)
    /\ lastAi' = AiEvent("detected", detections[r])
    /\ UNCHANGED <<currentInstrument, kline, klineFetches, renderedInstrument>>

\* The detectChartPatterns request r rejects: patterns = [], then the
\* finally block clears the flag.
DetectRejected(r) ==
    /\ patterns' = <<>>
    /\ isLoadingPatterns' = FALSE
    /\ detections' = RemoveAt(detections, r)
    /\ lastAi' = AiEvent("detectFailed", detections[r])
    /\ UNCHANGED <<currentInstrument, kline, klineFetches, renderedInstrument>>

\* fetchPatterns(instrument) called by a component (the store exports it;
\* fetchKlineToRender is its only caller in the repository).
CallFetchPatterns(instrument) ==
    /\ FetchPatterns(instrument)
    /\ lastAi' = AiEvent("fetchPatterns", instrument)
    /\ UNCHANGED <<currentInstrument, kline, klineFetches, renderedInstrument, patterns>>

NextChart ==
    \/ \E instrument \in Instruments :
          SetCurrentInstrument(instrument) /\ UNCHANGED <<orderVars, sentimentVars, socketVars>>
    \/ TradingPageEffect /\ UNCHANGED <<orderVars, sentimentVars, socketVars>>
    \/ KlineTimeout /\ UNCHANGED <<orderVars, sentimentVars, socketVars>>
    \/ \E r \in 1..Len(detections) : DetectFulfilled(r) /\ UNCHANGED <<orderVars, sentimentVars, socketVars>>
    \/ \E r \in 1..Len(detections) : DetectRejected(r) /\ UNCHANGED <<orderVars, sentimentVars, socketVars>>

SpecChart == Init /\ [][NextChart]_vars

NextPatterns ==
    \/ \E instrument \in Instruments :
          SetCurrentInstrument(instrument) /\ UNCHANGED <<orderVars, sentimentVars, socketVars>>
    \/ TradingPageEffect /\ UNCHANGED <<orderVars, sentimentVars, socketVars>>
    \/ KlineTimeout /\ UNCHANGED <<orderVars, sentimentVars, socketVars>>
    \/ \E instrument \in Instruments \cup {NoInstrument} :
          CallFetchPatterns(instrument) /\ UNCHANGED <<orderVars, sentimentVars, socketVars>>
    \/ \E r \in 1..Len(detections) : DetectFulfilled(r) /\ UNCHANGED <<orderVars, sentimentVars, socketVars>>
    \/ \E r \in 1..Len(detections) : DetectRejected(r) /\ UNCHANGED <<orderVars, sentimentVars, socketVars>>

SpecPatterns == Init /\ [][NextPatterns]_vars

\* ---------------------------------------------------- the sentiment store
\* The symbols the sentiment feed connects for.
Symbols == { WithoutSlash(instrument) : instrument \in Instruments }

\* The handles of the open streams.
OpenStreams == { stream.id : stream \in streams }

\* new EventSource(url) returns an object that is none of the open ones;
\* the least free handle stands for it.
NewEventSource(open) ==
    CHOOSE h \in StreamIds \ { stream.id : stream \in open } :
        \A g \in StreamIds \ { stream.id : stream \in open } : h <= g

\* What the last callback did, and the stored EventSource it found.
FeedEvent(op) == [op |-> op, was |-> eventSource]

\* eventSource.close() for the stream with handle h (a closed one stays closed).
CloseStream(h) == { stream \in streams : stream.id # h }

\* Mutant of Unshifted: draft.liveFeed.unshift(newData) without the pop.
UnshiftedUncapped(feed, newData) == <<newData>> \o feed

\* draft.liveFeed.unshift(newData), then pop() when longer than 20.
Unshifted(feed, newData) ==
    LET longer == <<newData>> \o feed
    IN  IF Len(longer) > FeedCap THEN SubSeq(longer, 1, Len(longer) - 1) ELSE longer

\* disconnect(): close the stored EventSource, forget it and clear the feed.
Disconnect ==
    /\ IF eventSource # None
       THEN /\ streams' = CloseStream(eventSource)
            /\ eventSource' = None
            /\ liveFeed' = <<>>
       ELSE UNCHANGED <<eventSource, streams, liveFeed>>
    /\ lastFeed' = FeedEvent("disconnect")
    /\ UNCHANGED received

\* connect(symbol): disconnect(), open a new EventSource with its handlers
\* and store it.
Connect(symbol) ==
    LET open == IF eventSource # None THEN CloseStream(eventSource) ELSE streams
        h    == NewEventSource(open)
    IN  /\ StreamIds \ { stream.id : stream \in open } # {}
        /\ streams' = open \cup {[id |-> h, symbol |-> symbol]}
        /\ eventSource' = h
        /\ liveFeed' = IF eventSource # None THEN <<>> ELSE liveFeed
        /\ lastFeed' = FeedEvent("connect")
        /\ UNCHANGED received

\* onmessage of the open stream h: the parsed item goes to the front of the
\* feed.  Items are numbered in the order they are received.
OnMessage(h) ==
    /\ h \in OpenStreams
    /\ received < MaxMessages
    /\ received' = received + 1
    /\ liveFeed' = Unshifted(liveFeed, received + 1)
    /\ lastFeed' = FeedEvent("message")
    /\ UNCHANGED <<eventSource, streams>>

\* onerror of the open stream h: the stream closes itself; the store keeps
\* its handle.
OnError(h) ==
    /\ h \in OpenStreams
    /\ streams' = CloseStream(h)
    /\ lastFeed' = FeedEvent("error")
    /\ UNCHANGED <<eventSource, liveFeed, received>>

NextSentiment ==
    \/ \E symbol \in Symbols :
          Connect(symbol) /\ UNCHANGED <<orderVars, aiVars, socketVars>>
    \/ Disconnect /\ UNCHANGED <<orderVars, aiVars, socketVars>>
    \/ \E h \in StreamIds : OnMessage(h) /\ UNCHANGED <<orderVars, aiVars, socketVars>>
    \/ \E h \in StreamIds : OnError(h) /\ UNCHANGED <<orderVars, aiVars, socketVars>>

SpecSentiment == Init /\ [][NextSentiment]_vars

\* ------------------------------------------------------ WebSocketProvider
\* The types of the messages the server sends, and a frame that is not JSON.
MessageTypes == {"account_update", "trade_executed", "subscription_updated", "unparsable"}

\* What the last step did, the socket the ref held and the sockets open.
WsEvent(op) == [op |-> op, was |-> webSocketRef, open |-> sockets]

\* Mutant of AfterCleanup: the cleanup forgets the socket without closing it.
AfterCleanupWithoutClose ==
    IF cleanup /\ webSocketRef # None
    THEN [ref |-> None, open |-> sockets]
    ELSE [ref |-> webSocketRef, open |-> sockets]

\* The ref and the open sockets once the cleanup function of the effect's
\* last run, if it returned one, has run: close the socket of the ref and
\* null the ref.
AfterCleanup ==
    IF cleanup /\ webSocketRef # None
    THEN [ref |-> None, open |-> sockets \ {webSocketRef}]
    ELSE [ref |-> webSocketRef, open |-> sockets]

\* new WebSocket(wsUrl) returns an object that is none of the open ones and not
\* the one the ref holds; the least free handle stands for it.
NewWebSocket(c) ==
    CHOOSE h \in SocketIds \ (c.open \cup {c.ref}) :
        \A g \in SocketIds \ (c.open \cup {c.ref}) : h <= g

\* The effect's body, run with ref and open sockets c: with isAuthenticated
\* and a token it opens a socket and stores it; with isAuthenticated and no
\* token it returns at once, and returns no cleanup function; otherwise it
\* closes and forgets the socket of the ref.
RunEffect(authenticated, token, c) ==
    IF authenticated
    THEN IF ~token
         THEN /\ webSocketRef' = c.ref
              /\ sockets' = c.open
              /\ cleanup' = FALSE
         ELSE /\ SocketIds \ (c.open \cup {c.ref}) # {}
              /\ webSocketRef' = NewWebSocket(c)
              /\ sockets' = c.open \cup {NewWebSocket(c)}
              /\ cleanup' = TRUE
    ELSE /\ webSocketRef' = None
         /\ sockets' = IF c.ref # None THEN c.open \ {c.ref} ELSE c.open
         /\ cleanup' = TRUE

\* WebSocketProvider mounts: fresh state and ref, and the effect runs.
MountProvider ==
    /\ ~providerMounted
    /\ providerMounted' = TRUE
    /\ lastMessage' = "null"
    /\ accountData' = "null"
    /\ RunEffect(isAuthenticated, accessToken, [ref |-> None, open |-> sockets])
    /\ lastWs' = WsEvent("mount")
    /\ UNCHANGED <<isAuthenticated, accessToken, reloading>>

\* isAuthenticated changes (login stores a token, logout removes it): a
\* mounted provider runs the cleanup of the effect's last run and then the
\* effect.
AuthChange(authenticated, token) ==
    /\ authenticated # isAuthenticated
    /\ isAuthenticated' = authenticated
    /\ accessToken' = token
    /\ IF providerMounted
       THEN RunEffect(authenticated, token, AfterCleanup)
       ELSE UNCHANGED <<webSocketRef, sockets, cleanup>>
    /\ lastWs' = WsEvent("authChange")
    /\ UNCHANGED <<providerMounted, lastMessage, accountData, reloading>>

\* localStorage gains or loses the accessToken while isAuthenticated stays
\* as it is (the effect does not depend on it).
SetAccessToken(token) ==
    /\ accessToken' = token
    /\ lastWs' = WsEvent("storage")
    /\ UNCHANGED <<isAuthenticated, providerMounted, webSocketRef, sockets, cleanup,
                   lastMessage, accountData, reloading>>

\* WebSocketProvider unmounts: the cleanup of the effect's last run runs.
UnmountProvider ==
    /\ providerMounted
    /\ providerMounted' = FALSE
    /\ webSocketRef' = AfterCleanup.ref
    /\ sockets' = AfterCleanup.open
    /\ cleanup' = FALSE
    /\ lastWs' = WsEvent("unmount")
    /\ UNCHANGED <<isAuthenticated, accessToken, lastMessage, accountData, reloading>>

\* socket.onmessage of the open socket h.
OnSocketMessage(h, type) ==
    /\ h \in sockets
    /\ lastMessage' = IF type = "unparsable" THEN lastMessage ELSE type
    /\ accountData' = IF type = "account_update" THEN "data" ELSE accountData
    /\ reloading' = (reloading \/ type = "subscription_updated")
    /\ lastWs' = WsEvent("message")
    /\ UNCHANGED <<isAuthenticated, accessToken, providerMounted, webSocketRef,
                   sockets, cleanup>>

\* The server or the network closes the open socket h (socket.onclose logs).
OnSocketClose(h) ==
    /\ h \in sockets
    /\ sockets' = sockets \ {h}
    /\ lastWs' = WsEvent("close")
    /\ UNCHANGED <<isAuthenticated, accessToken, providerMounted, webSocketRef,
                   cleanup, lastMessage, accountData, reloading>>

\* setTimeout(() => window.location.reload(), 4000) fires: the page, its
\* components and its sockets are gone, and the application starts again.
ReloadPage ==
    /\ reloading
    /\ reloading' = FALSE
    /\ isAuthenticated' = FALSE
    /\ providerMounted' = FALSE
    /\ webSocketRef' = None
    /\ sockets' = {}
    /\ cleanup' = FALSE
    /\ lastMessage' = "null"
    /\ accountData' = "null"
    /\ lastWs' = WsEvent("reload")
    /\ UNCHANGED accessToken

NextSocket ==
    \/ MountProvider /\ UNCHANGED <<orderVars, aiVars, sentimentVars>>
    \/ \E authenticated \in BOOLEAN : \E token \in BOOLEAN :
          AuthChange(authenticated, token) /\ UNCHANGED <<orderVars, aiVars, sentimentVars>>
    \/ \E token \in BOOLEAN :
          SetAccessToken(token) /\ UNCHANGED <<orderVars, aiVars, sentimentVars>>
    \/ UnmountProvider /\ UNCHANGED <<orderVars, aiVars, sentimentVars>>
    \/ \E h \in SocketIds : \E type \in MessageTypes :
          OnSocketMessage(h, type) /\ UNCHANGED <<orderVars, aiVars, sentimentVars>>
    \/ \E h \in SocketIds :
          OnSocketClose(h) /\ UNCHANGED <<orderVars, aiVars, sentimentVars>>
    \/ ReloadPage /\ UNCHANGED <<orderVars, aiVars, sentimentVars>>

SpecSocket == Init /\ [][NextSocket]_vars

\* ----------------------------------------------------------------- claims
\* The records of a cache that carry the given id.
RecordsOf(ords, id) == { ords[k] : k \in { j \in 1..Len(ords) : ords[j].id = id } }

\* How many requests of a batch are for the given id.
TimesRequested(ids, id) == Cardinality({ k \in 1..Len(ids) : ids[k] = id })

\* C1: the cache holds at most one record per order id, and as many records
\* as there are distinct ids addOrder has been called with.
C1_OneRecordPerId ==
    /\ \A j, k \in 1..Len(orders) : orders[j].id = orders[k].id => j = k
    /\ Len(orders) = Cardinality(addedIds)

\* C1 witness: addOrder has just been called with an id that was already
\* cached (its argument is not the cached record), beside a second order.
C1_Witness ==
    /\ last.op = "addOrder"
    /\ Len(orders) = 2
    /\ \E k \in 1..Len(orders) :
          orders[k].id = last.arg[1].id /\ orders[k] # last.arg[1]

\* C2 (as claimed): a poll never requests the status of an id whose cached
\* status has been terminal at some earlier time.
C2_NeverPolledAfterTerminal ==
    last.op = "poll" => \A k \in 1..Len(last.ids) : last.ids[k] \notin wasTerminal

\* C3 (as claimed): every id whose cached status has been terminal is still
\* cached with a terminal status.
C3_TerminalIsFinal ==
    \A id \in wasTerminal :
        \E k \in 1..Len(orders) :
            orders[k].id = id /\ orders[k].status \in {"FILLED", "CANCELED", "REJECTED", "ERROR"}

\* C4 (as claimed): after the set of non-terminal records has become empty,
\* no poll issues a status request until addOrder is called again, and the
\* poll that finds the set empty leaves no timer live.
C4_QuietUntilAddOrder ==
    quiet => /\ last.op # "poll"
             /\ last.op = "pollIdle" => timers = {}

\* C5: when a batch is applied, the record of every id whose request rejected
\* is what it was just before, and the record of every id whose request
\* fulfilled is the body of its response, whatever the other requests of the
\* batch did.
C5_PartialFailureIsolated ==
    [][ last'.op = "apply" =>
          \A k \in 1..Len(last'.batch) :
              IF last'.batch[k].status = "rejected"
              THEN RecordsOf(orders', last'.ids[k]) = RecordsOf(orders, last'.ids[k])
              ELSE RecordsOf(orders', last'.ids[k]) = { last'.batch[k].value[1] } ]_vars

\* C5 witness: a batch with a rejected and a fulfilled request has been
\* applied, and the cache shows the fulfilled response.
C5_Witness ==
    /\ last.op = "apply"
    /\ \E j, k \in 1..Len(last.batch) :
          /\ last.batch[j].status = "rejected"
          /\ last.batch[k].status = "fulfilled"
          /\ last.batch[k].value[1] \in RecordsOf(orders, last.ids[k])
          /\ last.batch[k].value[1].status = "PARTIALLY_FILLED"

\* C6: after a batch is applied, the cached record of every request that
\* fulfilled equals the response body in every field.
C6_Overwrite ==
    last.op = "apply" =>
        \A k \in 1..Len(last.batch) :
            last.batch[k].status = "fulfilled" =>
                \E j \in 1..Len(orders) :
                    /\ orders[j].id = last.ids[k]
                    /\ \A f \in {"id", "status", "quantity_filled"} :
                          orders[j][f] = last.batch[k].value[1][f]
                    /\ DOMAIN orders[j] = DOMAIN last.batch[k].value[1]

\* C6 witness: a fulfilled response that changes status and quantity_filled
\* of a record added as SUBMITTED has been applied.
C6_Witness ==
    /\ last.op = "apply"
    /\ \E k \in 1..Len(last.batch) :
          /\ last.batch[k].status = "fulfilled"
          /\ last.batch[k].value[1].status = "FILLED"
          /\ last.batch[k].value[1].quantity_filled = 10
          /\ last.batch[k].value[1] \in RecordsOf(orders, last.ids[k])

\* C7: at most one interval timer is live, the stored handle is non-null
\* exactly when a timer is live and is then that timer's handle, and
\* startPolling (from addOrder or from the orders table) called while a handle
\* is stored leaves the handle and the timer table as they were.
C7_SingleTimer ==
    /\ Cardinality(timers) <= 1
    /\ (pollingInterval # None) <=> (timers # {})
    /\ pollingInterval # None => timers = {pollingInterval}
    /\ (last.op \in {"startPolling", "addOrder"} /\ last.was # None) =>
          (pollingInterval = last.was /\ timers = {last.was})

\* C7 witness: the orders table mounted while the timer was running with a
\* batch outstanding.
C7_Witness ==
    /\ last.op = "startPolling"
    /\ last.was # None
    /\ polls # <<>>

\* C8: a poll requests each cached record that is non-terminal exactly once
\* and no other id.
C8_OneRequestPerActive ==
    last.op \in {"poll", "pollIdle"} =>
        \A id \in OrderIds :
            TimesRequested(last.ids, id) =
                IF \E k \in 1..Len(orders) :
                      /\ orders[k].id = id
                      /\ orders[k].status \notin {"FILLED", "CANCELED", "REJECTED", "ERROR"}
                THEN 1 ELSE 0

\* C8 witness: with A non-terminal and B FILLED in the cache, a poll has
\* requested A only.
C8_Witness ==
    /\ last.op = "poll"
    /\ last.ids = <<"A">>
    /\ \E j, k \in 1..Len(orders) :
          /\ orders[j].id = "A"
          /\ orders[k].id = "B" /\ orders[k].status = "FILLED"

\* C9: when addOrder returns, a timer is live and its handle is stored; a
\* timer that was running is the one still running.
C9_AddOrderStartsTimer ==
    last.op = "addOrder" =>
        /\ pollingInterval # None
        /\ pollingInterval \in timers
        /\ last.was # None => pollingInterval = last.was

\* C9 witness: addOrder has returned from a call with an id already cached,
\* made while the timer was stopped.
C9_Witness ==
    /\ last.op = "addOrder"
    /\ last.was = None
    /\ Len(orders) = 1
    /\ orders[1] # last.arg[1]

\* C10: only the application of a batch changes a cached record, and then
\* only a record for which the batch holds a fulfilled response; addOrder
\* with a cached id, startPolling and stopPolling leave the array as it was.
C10_OnlyApplyMutates ==
    [][ /\ \A k \in 1..Len(orders) :
              /\ k <= Len(orders')
              /\ orders'[k] # orders[k] =>
                    /\ last'.op = "apply"
                    /\ \E i \in 1..Len(last'.batch) :
                          /\ last'.batch[i].status = "fulfilled"
                          /\ last'.ids[i] = orders[k].id
        /\ (last'.op = "addOrder" /\ \E k \in 1..Len(orders) : orders[k].id = last'.arg[1].id)
              => orders' = orders
        /\ last'.op \in {"startPolling", "pollIdle"} => orders' = orders ]_vars

\* C10 witness: addOrder has been called with a cached id and other field
\* values, and the cached record is not the argument.
C10_Witness ==
    /\ last.op = "addOrder"
    /\ \E k \in 1..Len(orders) :
          /\ orders[k].id = last.arg[1].id
          /\ orders[k].status # last.arg[1].status
          /\ orders[k].status = "SUBMITTED"

\* The ids of the cached records, in cache order.
IdSeq(ords) == [k \in 1..Len(ords) |-> ords[k].id]

\* C11: the cache is append-only and insertion-ordered.  The sequence of
\* cached ids changes in one way only: addOrder appends an id that was not
\* cached.  Applying a batch of poll responses leaves the sequence of ids as
\* it was (nothing inserted, removed or reordered), and a batch none of whose
\* fulfilled responses carries a cached id leaves the cache as it was.
C11_AppendOnly ==
    [][ /\ \/ IdSeq(orders') = IdSeq(orders)
           \/ /\ last'.op = "addOrder"
              /\ last'.arg[1].id \notin Ids(orders)
              /\ IdSeq(orders') = Append(IdSeq(orders), last'.arg[1].id)
        /\ last'.op \in {"apply", "settle", "poll", "pollIdle", "startPolling"}
              => IdSeq(orders') = IdSeq(orders)
        /\ ( /\ last'.op = "apply"
             /\ \A k \in 1..Len(last'.batch) :
                    last'.batch[k].status = "fulfilled"
                        => last'.batch[k].value[1].id \notin Ids(orders) )
              => orders' = orders
      ]_vars

\* A batch was applied that held a fulfilled response for an id that is not
\* cached, next to a cached record.
C11_Witness ==
    /\ last.op = "apply"
    /\ orders # <<>>
    /\ \E k \in 1..Len(last.batch) :
          /\ last.batch[k].status = "fulfilled"
          /\ last.batch[k].value[1].id \notin Ids(orders)

\* Every request of the batch rejected.
AllRejected(batch) ==
    /\ batch # <<>>
    /\ \A k \in 1..Len(batch) : batch[k].status = "rejected"

\* The ids of the active cached records, in cache order.
ActiveIdSeq(ords) == IdSeq(ActiveOrders(ords))

\* C12: a poll tick in which every status request rejects changes nothing in
\* the store: when its batch is applied the records, the timer handle and the
\* live timer are what they were, and issuing its requests changed none of
\* them either.  The timer therefore keeps running, and the tick that follows
\* requests the active records again, among them every order of the failed
\* batch that is still active.
C12_AllRejectedChangesNothing ==
    [][ /\ (last'.op = "apply" /\ AllRejected(last'.batch))
              => /\ orders' = orders
                 /\ pollingInterval' = pollingInterval
                 /\ timers' = timers
        /\ last'.op = "poll"
              => /\ orders' = orders
                 /\ pollingInterval' = pollingInterval
                 /\ timers' = timers
        /\ (last.op = "apply" /\ AllRejected(last.batch) /\ last'.op = "poll")
              => /\ last'.ids = ActiveIdSeq(orders)
                 /\ \A k \in 1..Len(last.ids) :
                        (\E r \in RecordsOf(orders, last.ids[k]) : IsActive(r))
                            => \E j \in 1..Len(last'.ids) : last'.ids[j] = last.ids[k]
      ]_vars

\* A batch in which every request rejected was applied: the timer is live and
\* the orders it asked for are still cached as active.
C12_Witness ==
    /\ last.op = "apply"
    /\ AllRejected(last.batch)
    /\ timers # {}
    /\ pollingInterval \in timers
    /\ \A k \in 1..Len(last.ids) :
          \E r \in RecordsOf(orders, last.ids[k]) : IsActive(r)

\* No suspended pollOrders invocation holds a request for id.
NoneInFlight(id) ==
    \A p \in 1..Len(polls) : TimesRequested(polls[p].activeOrders, id) = 0

\* C13 as stated: once no request for an order is in flight, its cached record
\* equals the response that resolved last among the requests for it.
C13_LastResolvedWins ==
    \A id \in Ids(orders) :
        (NoneInFlight(id) /\ resolved[id] # <<>>)
            => RecordsOf(orders, id) = {resolved[id][1]}

\* C13, amended: once no request for an order is in flight, its cached record
\* equals the response for it in the batch that was applied last among the
\* batches holding a fulfilled response for it, whichever of the requests for
\* it resolved last.
C13_LastAppliedWins ==
    \A id \in Ids(orders) :
        (NoneInFlight(id) /\ applied[id] # <<>>)
            => RecordsOf(orders, id) = {applied[id][1]}

\* Two overlapping batches held a response for the same order and the one
\* applied last did not hold the response that resolved last.
C13_Witness ==
    \E id \in Ids(orders) :
        /\ NoneInFlight(id)
        /\ last.op = "apply"
        /\ applied[id] # <<>>
        /\ resolved[id] # <<>>
        /\ applied[id] # resolved[id]
        /\ TimesRequested(last.ids, id) = 1

\* C14: stopPolling cancels the timer and nothing else.  The tick that stops
\* the timer leaves the suspended invocations and their requests as they
\* were, and a batch that settles while no timer is live is applied like any
\* other: each fulfilled response replaces the cached record of its order,
\* and applying it does not restart the timer.
C14_StopLeavesRequestsInFlight ==
    [][ /\ last'.op = "pollIdle"
              => /\ polls' = polls
                 /\ timers' = {}
        /\ (last'.op = "apply" /\ timers = {} /\ pollingInterval = None)
              => /\ \A k \in 1..Len(last'.batch) :
                        last'.batch[k].status = "fulfilled"
                            => RecordsOf(orders', last'.ids[k]) = {last'.batch[k].value[1]}
                 /\ timers' = {}
                 /\ pollingInterval' = None
      ]_vars

\* A batch settled after the timer had been stopped and its response was
\* written: an order that had been terminal, which is what stopped the
\* timer, is cached as active again with no timer live.
C14_Witness ==
    /\ last.op = "apply"
    /\ last.was = None
    /\ timers = {}
    /\ \E k \in 1..Len(last.batch) :
          /\ last.batch[k].status = "fulfilled"
          /\ last.ids[k] \in wasTerminal
          /\ IsActive(last.batch[k].value[1])
          /\ last.batch[k].value[1] \in RecordsOf(orders, last.ids[k])

\* C15: the step in which a createOrder request succeeds is one call of
\* addOrder with the response body: the store records that call with that
\* argument and the cache is what addOrder leaves for it.  The step in which
\* a createOrder request fails leaves the store as it was, and addOrder is
\* called in no step other than a successful creation.
C15_AddOrderOncePerCreation ==
    [][ /\ outcome'.status = "fulfilled"
              => /\ creating' = creating - 1
                 /\ last' = Event("addOrder", outcome'.value, <<>>, <<>>)
                 /\ orders' = Pushed(orders, outcome'.value[1])
                 /\ polls' = polls
        /\ outcome'.status = "rejected"
              => /\ creating' = creating - 1
                 /\ UNCHANGED storeVars
        /\ (orders' # orders /\ Len(orders') > Len(orders))
              => outcome'.status = "fulfilled"
        /\ (last' # last /\ last'.op = "addOrder")
              => outcome' = Fulfilled(last'.arg[1])
      ]_vars

\* One creation succeeded and its order is cached; another has just failed
\* and left the store as the successful one had left it.
C15_Witness ==
    /\ outcome = Rejected
    /\ last.op = "addOrder"
    /\ orders = last.arg
    /\ pollingInterval \in timers

\* The state of the store and of its timers.
storeState == <<orders, pollingInterval, timers, polls>>

\* C16: startPolling and stopPolling are idempotent.  A call of startPolling
\* that follows a call of startPolling changes nothing, a call of stopPolling
\* that follows a call of stopPolling changes nothing, stopPolling with no
\* handle stored changes nothing, and after any call of stopPolling no timer
\* is live and the handle is null.  Neither touches the cache or the requests
\* in flight.
C16_StartStopIdempotent ==
    [][ /\ (last.op = "startPolling" /\ last'.op = "startPolling")
              => storeState' = storeState
        /\ (last.op = "stopPolling" /\ last'.op = "stopPolling")
              => storeState' = storeState
        /\ (last'.op = "stopPolling" /\ pollingInterval = None)
              => storeState' = storeState
        /\ last'.op = "stopPolling"
              => /\ timers' = {}
                 /\ pollingInterval' = None
                 /\ orders' = orders
                 /\ polls' = polls
        /\ last'.op = "startPolling"
              => /\ pollingInterval' \in timers'
                 /\ Cardinality(timers') = 1
                 /\ orders' = orders
                 /\ polls' = polls
      ]_vars

\* stopPolling was called with no handle stored, a first call having stopped
\* the timer that addOrder had started for an order that is still active.
C16_Witness ==
    /\ last.op = "stopPolling"
    /\ last.was = None
    /\ timers = {}
    /\ pollingInterval = None
    /\ ActiveOrders(orders) # <<>>

\* No response of the batch carries a terminal status: each request failed
\* or was answered with a status that is still open.
NoTerminalAnswer(batch) ==
    \A k \in 1..Len(batch) :
        batch[k].status = "fulfilled" => IsActive(batch[k].value[1])

\* The ids of the cached records that are active.
ActiveIds(ords) == Ids(ActiveOrders(ords))

\* C17: polling has no retry limit and no staleness timeout.  A tick that
\* finds an active record requests every active record, however often it was
\* requested before, and leaves the timer running; a batch whose requests
\* all failed or were answered with a non-terminal status leaves every active
\* record active and the timer running; and the timer is stopped by nothing
\* but a tick that finds no active record.  So while the server answers so,
\* tick follows tick without end.
C17_PollsWithoutLimit ==
    [][ /\ last'.op = "pollIdle" => ActiveOrders(orders) = <<>>
        /\ last'.op = "poll"
              => /\ ActiveOrders(orders) # <<>>
                 /\ last'.ids = ActiveIdSeq(orders)
                 /\ timers' = timers
                 /\ pollingInterval' = pollingInterval
        /\ (last'.op = "apply" /\ NoTerminalAnswer(last'.batch))
              => /\ ActiveIds(orders) \subseteq ActiveIds(orders')
                 /\ timers' = timers
                 /\ pollingInterval' = pollingInterval
        /\ ~(timers \subseteq timers') => last'.op = "pollIdle"
      ]_vars

\* An order whose last applied answer was non-terminal is requested again, by
\* a tick of the timer that is still live.
C17_Witness ==
    /\ last.op = "poll"
    /\ pollingInterval \in timers
    /\ \E k \in 1..Len(last.ids) :
          /\ applied[last.ids[k]] # <<>>
          /\ IsActive(applied[last.ids[k]][1])
          /\ resolved[last.ids[k]] = applied[last.ids[k]]

\* The orders that cached records name as their parent.
ParentIds(ords) == { ords[k].parent_order_id : k \in 1..Len(ords) } \ {NoParent}

\* C18: every status request of a tick is for the id of a record that is in
\* the cache, and active, at that tick.  A parent reference causes none: an
\* order named as the parent of a cached record is requested only if it is
\* itself cached and active, and so is a child order.
C18_RequestsOnlyCachedActive ==
    [][ last'.op = "poll"
          => /\ \A k \in 1..Len(last'.ids) : last'.ids[k] \in ActiveIds(orders)
             /\ \A id \in ParentIds(orders) :
                    id \notin ActiveIds(orders) => TimesRequested(last'.ids, id) = 0
             /\ \A k \in 1..Len(orders) :
                    ~IsActive(orders[k]) => TimesRequested(last'.ids, orders[k].id) = 0
      ]_vars

\* A tick requested an active child order whose parent is not an active
\* cached record (not cached, or cached as terminal).
C18_Witness ==
    /\ last.op = "poll"
    /\ \E k \in 1..Len(orders) :
          /\ orders[k].parent_order_id # NoParent
          /\ IsActive(orders[k])
          /\ TimesRequested(last.ids, orders[k].id) = 1
          /\ orders[k].parent_order_id \notin ActiveIds(orders)

\* The suspended invocations whose batch holds a result that is still pending.
Suspended(ps) ==
    { p \in 1..Len(ps) : \E k \in 1..Len(ps[p].results) : ps[p].results[k].status = "pending" }

\* C19: a tick applies nothing until every request of its batch has settled.
\* Issuing the requests changes no record; a request that settles while
\* another of its batch is pending changes no record and its response is
\* held in the batch; the step that settles the last pending request of a
\* batch applies the whole batch at once, every result of which is settled,
\* and the cache is then the cache before with all of them applied.  Every
\* invocation still suspended has a request pending.
C19_AppliedWhenAllSettled ==
    [][ /\ last'.op \in {"poll", "settle"} => orders' = orders
        /\ last'.op = "settle"
              => /\ Len(polls') = Len(polls)
                 /\ Suspended(polls') = 1..Len(polls')
        /\ last'.op = "apply"
              => /\ \A k \in 1..Len(last'.batch) : last'.batch[k].status # "pending"
                 /\ Len(last'.batch) = Len(last'.ids)
                 /\ Len(polls') = Len(polls) - 1
                 /\ orders' = ApplyFrom(orders, last'.batch, 1)
        /\ Suspended(polls') = 1..Len(polls')
      ]_vars

\* A response has resolved and is held by its batch, which still waits for
\* another request: the cached record is not yet what the response says.
C19_Witness ==
    /\ last.op = "settle"
    /\ \E p \in 1..Len(polls) : \E k \in 1..Len(polls[p].results) :
          /\ polls[p].results[k].status = "fulfilled"
          /\ RecordsOf(orders, polls[p].activeOrders[k]) # {polls[p].results[k].value[1]}
          /\ \E j \in 1..Len(polls[p].results) : polls[p].results[j].status = "pending"

\* C20: a tick that finds no active record in the cache, an empty cache
\* included, issues no status request, stops the timer (no timer is live and
\* the handle is null afterwards) and leaves the cache and the suspended
\* invocations as they were.
C20_IdleTickStops ==
    [][ /\ last'.op = "pollIdle"
              => /\ last'.ids = <<>>
                 /\ polls' = polls
                 /\ orders' = orders
                 /\ timers' = {}
                 /\ pollingInterval' = None
        /\ (last'.op = "poll") => ActiveOrders(orders) # <<>>
      ]_vars

\* The timer was running over an empty cache and an idle tick stopped it.
C20_Witness ==
    /\ last.op = "pollIdle"
    /\ last.was # None
    /\ orders = <<>>
    /\ timers = {}
    /\ pollingInterval = None

\* C21: no non-terminal order is left unpolled.  Whenever the cache holds an
\* active record the polling timer is running: the stored handle is the
\* handle of a live timer.
C21_ActiveImpliesPolling ==
    ActiveOrders(orders) # <<>> => (pollingInterval # None /\ pollingInterval \in timers)

\* C22: polling quiesces with every record terminal.  In its finite form:
\* whenever polling is at rest (no timer is live and no status request is
\* in flight, so that without a further addOrder or mount nothing happens
\* any more and the state persists) every cached record is terminal.
C22_AtRestAllTerminal ==
    (timers = {} /\ polls = <<>>) => ActiveOrders(orders) = <<>>

\* The number of rows of the table that show the order id.
RowsOf(ords, id) == TimesRequested(IdSeq(Rows(ords)), id)

\* C23: the orders table shows every cached order in exactly one row.
C23_EachOrderOneRow ==
    \A k \in 1..Len(orders) : RowsOf(orders, orders[k].id) = 1

\* C24: chart patterns are never stale across an instrument switch.  The
\* pattern list is empty or holds the patterns of the selected instrument,
\* and once no chart fetch and no detection request is in flight it is not
\* the result of another instrument.
C24_PatternsOfCurrentInstrument ==
    patterns \in {<<>>, PatternsOf(WithoutSlash(currentInstrument))}

\* C25: at most one pattern-detection request is in flight at a time and
\* isLoadingPatterns is true exactly while one is.  fetchPatterns called
\* while the flag is set, or without an instrument, issues no request and
\* changes no state of the store; called otherwise it sets the flag and
\* issues one request; when the request settles the flag is cleared and the
\* pattern list is the response if it fulfilled, empty if it rejected.
C25_OneDetectionInFlight ==
    [][ /\ Len(detections') <= 1
        /\ isLoadingPatterns' = (detections' # <<>>)
        /\ (lastAi'.op = "fetchPatterns" /\ (lastAi'.arg = NoInstrument \/ isLoadingPatterns))
              => UNCHANGED <<patterns, isLoadingPatterns, detections>>
        /\ (lastAi'.op = "fetchPatterns" /\ lastAi'.arg # NoInstrument /\ ~isLoadingPatterns)
              => /\ detections' = <<WithoutSlash(lastAi'.arg)>>
                 /\ isLoadingPatterns'
                 /\ patterns' = patterns
        /\ lastAi'.op = "detected"
              => /\ detections = <<lastAi'.arg>>
                 /\ patterns' = PatternsOf(lastAi'.arg)
                 /\ ~isLoadingPatterns'
        /\ lastAi'.op = "detectFailed"
              => /\ detections = <<lastAi'.arg>>
                 /\ patterns' = <<>>
                 /\ ~isLoadingPatterns'
      ]_vars

\* fetchPatterns was called for an instrument while a request was in flight
\* and returned at once: one request is in flight and the flag is set.
C25_Witness ==
    /\ lastAi.op = "fetchPatterns"
    /\ lastAi.arg \in Instruments
    /\ lastAi.loading
    /\ isLoadingPatterns
    /\ Len(detections) = 1
    /\ detections[1] # WithoutSlash(lastAi.arg)

\* C26: in the sentiment store, after any sequence of connect, disconnect,
\* message and error events, at most one event stream is open (and it is the
\* stored one), the live feed holds at most 20 items, newest first, with the
\* item received last at its head after a message, and after disconnect of
\* a connected store the feed is empty, the handle null and no stream open.
C26_OneStreamCappedFeed ==
    /\ Cardinality(streams) <= 1
    /\ OpenStreams \subseteq {eventSource}
    /\ Len(liveFeed) <= FeedCap
    /\ \A i \in 1..Len(liveFeed) : \A j \in 1..Len(liveFeed) :
          i < j => liveFeed[i] > liveFeed[j]
    /\ lastFeed.op = "message" => (liveFeed # <<>> /\ liveFeed[1] = received)
    /\ (lastFeed.op = "disconnect" /\ lastFeed.was # None)
          => (liveFeed = <<>> /\ eventSource = None /\ streams = {})

\* More than 20 items were received on one connection: the feed holds the
\* 20 newest, the newest first.
C26_Witness ==
    /\ lastFeed.op = "message"
    /\ Len(liveFeed) = FeedCap
    /\ liveFeed[1] = received
    /\ liveFeed[FeedCap] > 1
    /\ Cardinality(streams) = 1

\* C27: the account WebSocket follows the authentication state.  After any
\* sequence of isAuthenticated changes, mounts and unmounts at most one
\* socket created by WebSocketProvider is open, it is the one the ref
\* holds, and whenever isAuthenticated is false or the provider is not
\* mounted no such socket is open and the ref is null.
C27_SocketFollowsAuth ==
    /\ Cardinality(sockets) <= 1
    /\ sockets \subseteq {webSocketRef}
    /\ (~isAuthenticated \/ ~providerMounted)
          => (sockets = {} /\ webSocketRef = None)

\* isAuthenticated turned false, or the provider unmounted, while its
\* socket was open: the socket is closed and the ref is null.
C27_Witness ==
    /\ lastWs.op \in {"authChange", "unmount"}
    /\ lastWs.was # None
    /\ lastWs.was \in lastWs.open
    /\ sockets = {}
    /\ webSocketRef = None

====
